---- MODULE Spec2Model ----
(***************************************************************************)
(* Simulation kernel of SeQUeNCe: the sequential Timeline event loop and   *)
(* the ParallelTimeline conservative window protocol with its              *)
(* AsyncParallelTimeline partition (src/src/kernel/timeline.py,            *)
(* src/src/kernel/p_timeline.py).                                          *)
(*                                                                         *)
(* One run is either a single sequential Timeline (cls = "Timeline", on    *)
(* rank 0) or one ParallelTimeline per MPI rank (cls = "ParallelTimeline").*)
(* Both classes share the base-class fields events, time, stop_time,       *)
(* schedule_counter and run_counter.                                       *)
(***************************************************************************)
EXTENDS Integers, Sequences, FiniteSets, TLC

\* ------------------------------------------------------------------ bounds
MaxTime == 3        \* largest timestamp an entity schedules
MaxEvents == 3      \* number of events created in one run
MaxLookahead == 2   \* lookahead is drawn from 1 .. MaxLookahead
MaxInitEvents == 2  \* number of events scheduled before run()
MaxSyncs == 4       \* number of windows a rank opens
MaxCoherence == 2   \* largest coherence_time of the Memory
MaxCalls == 3       \* number of calls entity code makes on the Memory

\* float('inf')
Inf == 99

Ranks == {0, 1}
RankSeq == <<0, 1>>

\* Entities of the simulated network and the rank that constructs each.
Names == {"A", "X", "B"}
Home == [n \in Names |-> IF n = "B" THEN 1 ELSE 0]
\* Entities that move_entity_to_async_tl may be called on.
AsyncCandidates == {"X"}

StopTimes == {MaxTime, Inf}

VARIABLES
    cls,                \* class of the timeline(s) constructed
    conforming,         \* whether entity code keeps the lookahead contract
    lookahead,          \* ParallelTimeline.lookahead (same on every rank)
    pc,                 \* position of each rank in init()/run()
    events,             \* Timeline.events (main event list) per rank
    time,               \* Timeline.time
    stop_time,          \* Timeline.stop_time
    schedule_counter,   \* Timeline.schedule_counter
    run_counter,        \* Timeline.run_counter
    event_buffer,       \* ParallelTimeline.event_buffer[rank][peer]
    buffer_min_ts,      \* ParallelTimeline.buffer_min_ts
    sync_counter,       \* ParallelTimeline.sync_counter
    exchange_counter,   \* ParallelTimeline.exchange_counter
    min_time,           \* local min_time of run()
    sync_time,          \* local sync_time of run()
    inbox,              \* local inbox of run(): result of alltoall
    async_entities_tl,  \* async_tl.entities (names) per rank
    async_events,       \* async_tl.events
    async_time,         \* async_tl.time
    async_run_counter,  \* async_tl.run_counter
    new_events,         \* async_tl.new_events
    flush_counter,      \* calls of quantum_manager.flush_before_sync
    memory,             \* the Memory entity: coherence_time, expiration_event
    nextId,             \* identity of the next Event object created
    scheduled,          \* history: every event handed to schedule() by entity code
    snapshot,           \* history: minimum over the events pending at the last alltoall
    execLog,            \* history: events popped by the run loops, per rank
    gmin,               \* history: largest min_time any rank has computed
    exchanges           \* history: number of alltoall collectives completed

vars == <<cls, conforming, lookahead, pc, events, time, stop_time, schedule_counter,
          run_counter, event_buffer, buffer_min_ts, sync_counter,
          exchange_counter, min_time, sync_time, inbox, async_entities_tl,
          async_events, async_time, async_run_counter, new_events,
          flush_counter, memory, nextId, scheduled, snapshot, execLog, gmin,
          exchanges>>

\* ---------------------------------------------------------------- helpers
Min2(a, b) == IF a <= b THEN a ELSE b

Range(s) == {s[i] : i \in 1 .. Len(s)}

Front(s) == SubSeq(s, 1, Len(s) - 1)

Last(s) == s[Len(s)]

\* --------------------------------------------------------- Event, EventList
\* Event(time, Process(owner, ...)): owner is an entity reference
\* (byName = FALSE) or a name string (byName = TRUE).
Event(i, t, o, n) ==
    [id |-> i, time |-> t, owner |-> o, byName |-> n, valid |-> TRUE]

\* EventList.push: a priority queue keyed by time, FIFO among equal times.
RECURSIVE EventList_push(_, _)
EventList_push(q, e) ==
    IF q = <<>> THEN <<e>>
    ELSE IF Head(q).time <= e.time
         THEN <<Head(q)>> \o EventList_push(Tail(q), e)
         ELSE <<e>> \o q

\* EventList.top / EventList.pop
EventList_top(q) == Head(q)

EventList_pop(q) == Tail(q)

\* EventList.remove: lazy invalidation, the event stays in the list.
EventList_remove(q, i) ==
    [k \in 1 .. Len(q) |-> IF q[k].id = i THEN [q[k] EXCEPT !.valid = FALSE]
                           ELSE q[k]]

\* ------------------------------------------------- one timeline as a record
\* The fields of the timeline object of rank w (and the locals of its run()).
L(w) ==
    [pc |-> pc[w], events |-> events[w], time |-> time[w],
     stop_time |-> stop_time[w], schedule_counter |-> schedule_counter[w],
     run_counter |-> run_counter[w], event_buffer |-> event_buffer[w],
     buffer_min_ts |-> buffer_min_ts[w], sync_counter |-> sync_counter[w],
     exchange_counter |-> exchange_counter[w], min_time |-> min_time[w],
     sync_time |-> sync_time[w], inbox |-> inbox[w],
     async_entities_tl |-> async_entities_tl[w],
     async_events |-> async_events[w], async_time |-> async_time[w],
     async_run_counter |-> async_run_counter[w],
     new_events |-> new_events[w], flush_counter |-> flush_counter[w],
     execLog |-> execLog[w]]

Install(w, l) ==
    /\ pc' = [pc EXCEPT ![w] = l.pc]
    /\ events' = [events EXCEPT ![w] = l.events]
    /\ time' = [time EXCEPT ![w] = l.time]
    /\ stop_time' = [stop_time EXCEPT ![w] = l.stop_time]
    /\ schedule_counter' = [schedule_counter EXCEPT ![w] = l.schedule_counter]
    /\ run_counter' = [run_counter EXCEPT ![w] = l.run_counter]
    /\ event_buffer' = [event_buffer EXCEPT ![w] = l.event_buffer]
    /\ buffer_min_ts' = [buffer_min_ts EXCEPT ![w] = l.buffer_min_ts]
    /\ sync_counter' = [sync_counter EXCEPT ![w] = l.sync_counter]
    /\ exchange_counter' = [exchange_counter EXCEPT ![w] = l.exchange_counter]
    /\ min_time' = [min_time EXCEPT ![w] = l.min_time]
    /\ sync_time' = [sync_time EXCEPT ![w] = l.sync_time]
    /\ inbox' = [inbox EXCEPT ![w] = l.inbox]
    /\ async_entities_tl' = [async_entities_tl EXCEPT ![w] = l.async_entities_tl]
    /\ async_events' = [async_events EXCEPT ![w] = l.async_events]
    /\ async_time' = [async_time EXCEPT ![w] = l.async_time]
    /\ async_run_counter' = [async_run_counter EXCEPT ![w] = l.async_run_counter]
    /\ new_events' = [new_events EXCEPT ![w] = l.new_events]
    /\ flush_counter' = [flush_counter EXCEPT ![w] = l.flush_counter]
    /\ execLog' = [execLog EXCEPT ![w] = l.execLog]

\* ------------------------------------------------------------- scheduling
\* ParallelTimeline.foreign_entities of rank w, filled by add_foreign_entity
\* for every entity constructed on another rank.
foreign_entities(w) == [n \in {m \in Names : Home[m] # w} |-> Home[n]]

\* ParallelTimeline.async_entities: constructed empty, never added to.
async_entities == {}

\* Timeline.schedule
Timeline_schedule(l, e) ==
    [l EXCEPT !.schedule_counter = @ + 1,
              !.events = EventList_push(@, e)]

\* AsyncParallelTimeline.import_event: the owner name is resolved to the
\* entity and the event pushed on the async event list.
AsyncParallelTimeline_import_event(l, e) ==
    [l EXCEPT !.async_events =
                  EventList_push(@, [e EXCEPT !.byName = FALSE])]

\* AsyncParallelTimeline.schedule
AsyncParallelTimeline_schedule(l, e) ==
    [l EXCEPT !.new_events = Append(@, e)]

\* Variant of ParallelTimeline_schedule that also keeps a foreign event in
\* the local event list.
ParallelTimeline_schedule_KeepLocal(l, w, e) ==
    IF e.byName
    THEN IF e.owner \in DOMAIN foreign_entities(w)
         THEN [Timeline_schedule(l, e) EXCEPT
                 !.buffer_min_ts =
                     IF e.owner \notin async_entities
                     THEN Min2(@, e.time) ELSE @,
                 !.event_buffer[foreign_entities(w)[e.owner]] = Append(@, e)]
         ELSE IF e.owner \in l.async_entities_tl
              THEN AsyncParallelTimeline_import_event(l, e)
              ELSE Timeline_schedule(l, e)
    ELSE Timeline_schedule(l, e)

\* ParallelTimeline.schedule
ParallelTimeline_schedule(l, w, e) ==
    IF e.byName
    THEN IF e.owner \in DOMAIN foreign_entities(w)
         THEN [l EXCEPT
                 !.buffer_min_ts =
                     IF e.owner \notin async_entities
                     THEN Min2(@, e.time) ELSE @,
                 !.event_buffer[foreign_entities(w)[e.owner]] = Append(@, e),
                 !.schedule_counter = @ + 1]
         ELSE IF e.owner \in l.async_entities_tl
              THEN AsyncParallelTimeline_import_event(l, e)
              ELSE Timeline_schedule(l, e)
    ELSE Timeline_schedule(l, e)

\* for event in seq: self.schedule(event)
RECURSIVE ScheduleAll(_, _, _)
ScheduleAll(l, w, seq) ==
    IF seq = <<>> THEN l
    ELSE ScheduleAll(ParallelTimeline_schedule(l, w, Head(seq)), w, Tail(seq))

\* ParallelTimeline.top_time
ParallelTimeline_top_time(l) ==
    IF Len(l.events) > 0 THEN EventList_top(l.events).time ELSE Inf

\* Variant of AsyncParallelTimeline_top_time that reports one tick later.
AsyncParallelTimeline_top_time_Late(l) ==
    IF Len(l.async_events) > 0
    THEN EventList_top(l.async_events).time + lookahead + 1
    ELSE Inf

\* AsyncParallelTimeline.top_time
AsyncParallelTimeline_top_time(l) ==
    IF Len(l.async_events) > 0
    THEN EventList_top(l.async_events).time + lookahead
    ELSE Inf

\* ------------------------------------------------------- entity behaviour
\* The main (non-async) entity constructed on rank w.
MainEntity(w) == IF w = 0 THEN "A" ELSE "B"

\* Entity.timeline.now() for entity o of the timeline l: an entity moved to
\* the async partition reads async_tl.time.
now(l, o) == IF o \in l.async_entities_tl THEN l.async_time ELSE l.time

\* Timeline.stop
Timeline_stop(l) == [l EXCEPT !.stop_time = l.time]

\* Timeline.remove_event: the flag is set on the event object, whichever
\* list of this rank holds it.
Timeline_remove_event(l, i) ==
    [l EXCEPT !.events = EventList_remove(@, i),
              !.async_events = EventList_remove(@, i)]

\* entity.timeline.schedule(event) as called by entity o on rank w.
Entity_schedule(l, w, o, e) ==
    IF o \in l.async_entities_tl THEN AsyncParallelTimeline_schedule(l, e)
    ELSE IF cls = "Timeline" THEN Timeline_schedule(l, e)
    ELSE ParallelTimeline_schedule(l, w, e)

\* Owners an entity of rank w may name in a new event: a foreign entity by
\* its name string only, a local one by reference (or, for an entity that
\* can live in the async partition, also by name).
Targets(w) ==
    IF cls = "Timeline" THEN {[owner |-> "A", byName |-> FALSE]}
    ELSE {[owner |-> n, byName |-> TRUE] : n \in DOMAIN foreign_entities(w)}
         \cup {[owner |-> n, byName |-> FALSE] : n \in {m \in Names : Home[m] = w}}
         \cup {[owner |-> n, byName |-> TRUE] :
                   n \in {m \in AsyncCandidates : Home[m] = w}}

\* Earliest timestamp entity code may give an event for target g when the
\* scheduling entity reads the time t: the lookahead contract for a foreign
\* target, the present otherwise; any time when it keeps no contract.
EarliestTime(w, g, t) ==
    IF ~ conforming THEN 0
    ELSE IF cls = "ParallelTimeline" /\ g.owner \in DOMAIN foreign_entities(w)
    THEN t + lookahead ELSE t

NoEffect == [kind |-> "none", owner |-> "", byName |-> FALSE, time |-> 0, id |-> 0]

\* What process.run() of an event owned by o may do on rank w: nothing, stop
\* the timeline, remove a pending event, or schedule one new event; entity
\* code that keeps no contract may also schedule an event for itself and
\* remove it again in the same call ("cancelled").
Effects(l, w, o) ==
    {NoEffect}
    \cup (IF o \notin l.async_entities_tl
          THEN {[NoEffect EXCEPT !.kind = "stop"]} ELSE {})
    \cup {[NoEffect EXCEPT !.kind = "remove", !.id = e.id] :
              e \in {x \in Range(l.events) \cup Range(l.async_events) : x.valid}}
    \cup (IF nextId <= MaxEvents
          THEN UNION {{[NoEffect EXCEPT !.kind = "schedule", !.owner = g.owner,
                                        !.byName = g.byName, !.time = t] :
                           t \in EarliestTime(w, g, now(l, o)) .. MaxTime} :
                      g \in Targets(w)}
          ELSE {})
    \cup (IF nextId <= MaxEvents /\ ~ conforming /\ o \notin l.async_entities_tl
          THEN {[NoEffect EXCEPT !.kind = "cancelled", !.owner = o,
                                 !.time = t] : t \in 0 .. MaxTime}
          ELSE {})

\* process.run()
Process_run(l, w, o, eff) ==
    CASE eff.kind = "none" -> l
      [] eff.kind = "stop" -> Timeline_stop(l)
      [] eff.kind = "remove" -> Timeline_remove_event(l, eff.id)
      [] eff.kind = "schedule" ->
            Entity_schedule(l, w, o, Event(nextId, eff.time, eff.owner, eff.byName))
      [] eff.kind = "cancelled" ->
            Timeline_remove_event(
                Entity_schedule(l, w, o,
                                Event(nextId, eff.time, eff.owner, eff.byName)),
                nextId)

\* History entry of a call of schedule() by entity o of rank w that reads
\* the time t: the event, who scheduled it and when.
Scheduling(w, o, t, e) ==
    [id |-> e.id, time |-> e.time, owner |-> e.owner, byName |-> e.byName,
     from |-> w, by |-> o, now |-> t]

\* The history after process.run() of an event of entity o did eff.
ScheduledAfter(l, w, o, eff) ==
    IF eff.kind \in {"schedule", "cancelled"}
    THEN Append(scheduled,
                Scheduling(w, o, now(l, o),
                           Event(nextId, eff.time, eff.owner, eff.byName)))
    ELSE scheduled

\* Identity counter of Event objects after process.run() did eff.
NextIdAfter(eff) ==
    IF eff.kind \in {"schedule", "cancelled"} THEN nextId + 1 ELSE nextId

\* History entry of an event popped by run loop q ("main", "async", "seq")
\* in the timeline state l: what became of it (did: "invalid" when skipped,
\* "assert" when the time assertion failed, "requeued" when put back by
\* Timeline.run, otherwise what its process did) and the window it was in.
Popped(l, e, q, did) ==
    [id |-> e.id, time |-> e.time, owner |-> e.owner, q |-> q,
     now |-> IF q = "async" THEN l.async_time ELSE l.time,
     did |-> did, gmin |-> gmin, iter |-> l.sync_counter,
     min_time |-> l.min_time, sync_time |-> l.sync_time]

\* The popped event reached process.run().
Ran(x) == x.did \notin {"invalid", "assert", "requeued"}

\* ------------------------------------------------------------------- Init
\* Timeline.__init__, ParallelTimeline.__init__, AsyncParallelTimeline.__init__
\* The fields every constructor call sets the same way.
InitFields ==
    /\ cls \in {"Timeline", "ParallelTimeline"}
    /\ pc = [w \in Ranks |-> IF cls = "Timeline" /\ w # 0 THEN "idle" ELSE "init"]
    /\ events = [w \in Ranks |-> <<>>]
    /\ time = [w \in Ranks |-> 0]
    /\ schedule_counter = [w \in Ranks |-> 0]
    /\ run_counter = [w \in Ranks |-> 0]
    /\ event_buffer = [w \in Ranks |-> [r \in Ranks |-> <<>>]]
    /\ buffer_min_ts = [w \in Ranks |-> Inf]
    /\ sync_counter = [w \in Ranks |-> 0]
    /\ exchange_counter = [w \in Ranks |-> 0]
    /\ min_time = [w \in Ranks |-> 0]
    /\ sync_time = [w \in Ranks |-> 0]
    /\ inbox = [w \in Ranks |-> [r \in Ranks |-> <<>>]]
    /\ async_entities_tl = [w \in Ranks |-> {}]
    /\ async_events = [w \in Ranks |-> <<>>]
    /\ async_time = [w \in Ranks |-> 0]
    /\ async_run_counter = [w \in Ranks |-> 0]
    /\ new_events = [w \in Ranks |-> <<>>]
    /\ flush_counter = [w \in Ranks |-> 0]
    /\ nextId = 1
    /\ scheduled = <<>>
    /\ snapshot = [exact |-> Inf, relaxed |-> Inf]
    /\ execLog = [w \in Ranks |-> <<>>]
    /\ gmin = 0
    /\ exchanges = 0

\* expiration_event = None
None == 0

\* No Memory is constructed on the timelines.
NoMemory == [coherence_time |-> -1, expiration_event |-> None, called |-> ""]

\* Construction with the arguments the specification asks for (lookahead > 0)
\* and entity code that keeps the lookahead contract.
Init ==
    /\ InitFields
    /\ lookahead \in 1 .. MaxLookahead
    /\ cls = "Timeline" => lookahead = 1
    /\ \E s \in StopTimes : stop_time = [w \in Ranks |-> s]
    /\ conforming = TRUE
    /\ memory = NoMemory

\* Construction with any lookahead __init__ accepts, and entity code that
\* keeps no contract on the times it schedules at.
InitUnchecked ==
    /\ InitFields
    /\ lookahead \in 0 .. MaxLookahead
    /\ cls = "Timeline" => lookahead = 1
    /\ stop_time = [w \in Ranks |-> MaxTime]
    /\ conforming = FALSE
    /\ memory = NoMemory

\* ------------------------------------------------------------- scheduling
\* The ranks are separate processes with no shared memory: they interact in
\* the alltoall collective only, so steps of different ranks between two
\* collectives commute.  The ranks are therefore run in rank order: rank w
\* steps when every lower rank waits in the collective or has left run().
\* Positions at which run() has returned: the loop test failed ("exit"),
\* the loop was left by break ("break"), Timeline.run returned ("done").
Returned == {"exit", "break", "done"}

\* Positions at which a rank has raised AssertionError.
Aborted ==
    {"assert_min_time", "assert_async_time", "assert_main_time", "assert_seq_time"}

Turn(w) ==
    \A r \in Ranks : r < w => pc[r] \in {"alltoall", "idle"} \cup Returned \cup Aborted

\* ------------------------------------------------------------ setup phase
\* Before run(): entity code (init(), the application) schedules an event
\* through the timeline of rank w at now() = 0.
InitSchedule(w) ==
    /\ Turn(w)
    /\ pc[w] = "init"
    /\ nextId <= MaxInitEvents
    /\ \E g \in Targets(w) :
       \E t \in EarliestTime(w, g, 0) .. MaxTime :
          /\ Install(w, Entity_schedule(L(w), w, MainEntity(w),
                                        Event(nextId, t, g.owner, g.byName)))
          /\ scheduled' = Append(scheduled,
                                 Scheduling(w, MainEntity(w), 0,
                                            Event(nextId, t, g.owner, g.byName)))
    /\ nextId' = nextId + 1
    /\ UNCHANGED <<cls, conforming, memory, snapshot, lookahead, gmin, exchanges>>

\* ParallelTimeline.move_entity_to_async_tl
MoveEntity(w) ==
    /\ Turn(w)
    /\ cls = "ParallelTimeline"
    /\ pc[w] = "init"
    /\ schedule_counter[w] = 0
    /\ \E n \in AsyncCandidates :
          /\ Home[n] = w
          /\ n \notin async_entities_tl[w]
          /\ async_entities_tl' = [async_entities_tl EXCEPT ![w] = @ \cup {n}]
    /\ UNCHANGED <<cls, conforming, memory, snapshot, lookahead, pc, events, time, stop_time,
                   schedule_counter, run_counter, event_buffer, buffer_min_ts,
                   sync_counter, exchange_counter, min_time, sync_time, inbox,
                   async_events, async_time, async_run_counter, new_events,
                   flush_counter, nextId, scheduled, execLog, gmin, exchanges>>

\* ------------------------------------------------- ParallelTimeline.run
\* The piggy-backed min_time appended to every outbound buffer.
Stamp(m) == [ts |-> m]

\* Variant of LocalMinTime: the async event list is left out.
LocalMinTime_NoAsync(l) ==
    Min2(l.buffer_min_ts, ParallelTimeline_top_time(l))

\* Variant of LocalMinTime: the buffered outbound events are left out.
LocalMinTime_NoBuffer(l) ==
    Min2(ParallelTimeline_top_time(l), AsyncParallelTimeline_top_time(l))

\* min(self.buffer_min_ts, self.top_time(), self.async_tl.top_time())
LocalMinTime(l) ==
    Min2(l.buffer_min_ts,
         Min2(ParallelTimeline_top_time(l), AsyncParallelTimeline_top_time(l)))

\* Loop test and the lines up to the alltoall call.
BeforeExchange(l) ==
    IF l.time < l.stop_time
    THEN [l EXCEPT !.min_time = LocalMinTime(l),
                   !.event_buffer =
                       [r \in Ranks |-> Append(l.event_buffer[r],
                                               Stamp(LocalMinTime(l)))],
                   !.pc = "alltoall"]
    ELSE [l EXCEPT !.pc = "exit"]

LoopHead(w) ==
    /\ Turn(w)
    /\ cls = "ParallelTimeline"
    /\ pc[w] \in {"init", "head"}
    /\ Install(w, BeforeExchange(L(w)))
    /\ UNCHANGED <<cls, conforming, memory, snapshot, lookahead, nextId, scheduled,
                   gmin, exchanges>>

\* Events (not the piggy-backed stamps) of a buffer or inbox vector.
EventsOf(seq) == {x \in Range(seq) : "id" \in DOMAIN x}

\* Smallest member of a set of times, +infinity for the empty set.
MinOf(S) == IF S = {} THEN Inf ELSE CHOOSE t \in S : \A u \in S : t <= u

\* Timestamps of the events in the main event lists and in the outbound
\* buffers (about to be exchanged), and of those in the async event lists.
MainAndSentTimes ==
    UNION {{e.time : e \in Range(events[w])}
           \cup {e.time : e \in EventsOf(event_buffer[w][0])}
           \cup {e.time : e \in EventsOf(event_buffer[w][1])} : w \in Ranks}

AsyncTimes == UNION {{e.time : e \in Range(async_events[w])} : w \in Ranks}

\* The minimum over everything pending when the collective is entered:
\* exact, and with lookahead added to the events of the async partition.
PendingMin ==
    [exact |-> MinOf(MainAndSentTimes \cup AsyncTimes),
     relaxed |-> MinOf(MainAndSentTimes \cup {t + lookahead : t \in AsyncTimes})]

\* MPI.COMM_WORLD.alltoall(self.event_buffer): a collective every rank must
\* have entered; rank w receives event_buffer[r][w] from every rank r.
AllToAll ==
    /\ cls = "ParallelTimeline"
    /\ \A w \in Ranks : pc[w] = "alltoall"
    /\ inbox' = [w \in Ranks |-> [r \in Ranks |-> event_buffer[r][w]]]
    /\ pc' = [w \in Ranks |-> "absorb"]
    /\ exchanges' = exchanges + 1
    /\ snapshot' = PendingMin
    /\ UNCHANGED <<cls, conforming, memory, lookahead, events, time, stop_time, schedule_counter,
                   run_counter, event_buffer, buffer_min_ts, sync_counter,
                   exchange_counter, min_time, sync_time, async_entities_tl,
                   async_events, async_time, async_run_counter, new_events,
                   flush_counter, nextId, scheduled, execLog, gmin>>

\* Variant of ClearBuffers that resets buffer_min_ts but keeps the buffers.
ClearBuffers_MinTsOnly(l) == [l EXCEPT !.buffer_min_ts = Inf]

\* for buff in self.event_buffer: buff.clear(); self.buffer_min_ts = inf
ClearBuffers(l) ==
    [l EXCEPT !.event_buffer = [r \in Ranks |-> <<>>],
              !.buffer_min_ts = Inf]

\* for event in events: self.exchange_counter += 1; self.schedule(event)
RECURSIVE AbsorbEvents(_, _, _)
AbsorbEvents(l, w, seq) ==
    IF seq = <<>> THEN l
    ELSE AbsorbEvents(
             ParallelTimeline_schedule(
                 [l EXCEPT !.exchange_counter = @ + 1], w, Head(seq)),
             w, Tail(seq))

\* for events in inbox: min_time = min(min_time, events.pop()); ...
RECURSIVE AbsorbInbox(_, _, _)
AbsorbInbox(l, w, rs) ==
    IF rs = <<>> THEN l
    ELSE AbsorbInbox(
             AbsorbEvents(
                 [l EXCEPT !.min_time = Min2(@, Last(l.inbox[Head(rs)]).ts)],
                 w, Front(l.inbox[Head(rs)])),
             w, Tail(rs))

\* Variant of SyncTime that opens a window of zero width.
SyncTime_NoLookahead(l) == Min2(l.min_time, l.stop_time)

\* sync_time = min(min_time + self.lookahead, self.stop_time)
SyncTime(l) == Min2(l.min_time + lookahead, l.stop_time)

\* Variant of OpenWindow that leaves the loop only when min_time exceeds
\* stop_time.
OpenWindow_StrictBreak(l) ==
    IF ~ (l.min_time >= l.time) THEN [l EXCEPT !.pc = "assert_min_time"]
    ELSE IF l.min_time > l.stop_time THEN [l EXCEPT !.pc = "break"]
    ELSE [l EXCEPT !.sync_counter = @ + 1,
                   !.sync_time = SyncTime(l),
                   !.time = l.min_time,
                   !.new_events = <<>>,
                   !.pc = "async"]

\* From the assert to the call of async_tl.run(sync_time), which first
\* resets async_tl.new_events.
OpenWindow(l) ==
    IF ~ (l.min_time >= l.time) THEN [l EXCEPT !.pc = "assert_min_time"]
    ELSE IF l.min_time >= l.stop_time THEN [l EXCEPT !.pc = "break"]
    ELSE [l EXCEPT !.sync_counter = @ + 1,
                   !.sync_time = SyncTime(l),
                   !.time = l.min_time,
                   !.new_events = <<>>,
                   !.pc = "async"]

Max2(a, b) == IF a >= b THEN a ELSE b

Absorb(w) ==
    /\ Turn(w)
    /\ pc[w] = "absorb"
    /\ sync_counter[w] < MaxSyncs
    /\ LET l == AbsorbInbox(ClearBuffers(L(w)), w, RankSeq)
       IN /\ Install(w, OpenWindow(l))
          /\ gmin' = Max2(gmin, l.min_time)
    /\ UNCHANGED <<cls, conforming, memory, snapshot, lookahead, nextId, scheduled,
                   exchanges>>

\* One pass of the loop of AsyncParallelTimeline.run(sync_time): pop, skip an
\* invalid event, assert, advance async_tl.time, run the process.
AsyncBody(l, w, eff) ==
    LET e == EventList_top(l.async_events)
        p == [l EXCEPT !.async_events = EventList_pop(@)]
    IN IF ~ e.valid
       THEN [p EXCEPT !.execLog = Append(@, Popped(p, e, "async", "invalid"))]
       ELSE IF ~ (p.async_time <= e.time)
       THEN [p EXCEPT !.pc = "assert_async_time",
                      !.execLog = Append(@, Popped(p, e, "async", "assert"))]
       ELSE LET t == [p EXCEPT !.async_time = e.time]
                r == Process_run(t, w, e.owner, eff)
            IN [r EXCEPT !.async_run_counter = @ + 1,
                         !.execLog = Append(@, Popped(t, e, "async", eff.kind))]

\* Loop test of AsyncParallelTimeline.run
AsyncPending(l) ==
    Len(l.async_events) > 0 /\ EventList_top(l.async_events).time < l.sync_time

\* Whether the popped event reaches process.run().
Runs(e, t) == e.valid /\ t <= e.time

AsyncStep(w) ==
    /\ Turn(w)
    /\ pc[w] = "async"
    /\ AsyncPending(L(w))
    /\ LET e == EventList_top(async_events[w])
       IN \E eff \in IF Runs(e, async_time[w])
                     THEN Effects([L(w) EXCEPT !.async_time = e.time,
                                               !.async_events = EventList_pop(@)],
                                  w, e.owner)
                     ELSE {NoEffect} :
             /\ Install(w, AsyncBody(L(w), w, eff))
             /\ nextId' = NextIdAfter(eff)
             /\ scheduled' = ScheduledAfter([L(w) EXCEPT !.async_time = e.time],
                                            w, e.owner, eff)
    /\ UNCHANGED <<cls, conforming, memory, snapshot, lookahead, gmin, exchanges>>

\* async_tl.run returns new_events; for event in events: self.schedule(event)
RouteNewEvents(l, w) == [ScheduleAll(l, w, l.new_events) EXCEPT !.pc = "main"]

AsyncEnd(w) ==
    /\ Turn(w)
    /\ pc[w] = "async"
    /\ ~ AsyncPending(L(w))
    /\ Install(w, RouteNewEvents(L(w), w))
    /\ UNCHANGED <<cls, conforming, memory, snapshot, lookahead, nextId, scheduled,
                   gmin, exchanges>>

\* Variant of MainBody that leaves out the is_invalid() test.
MainBody_RunsInvalid(l, w, eff) ==
    LET e == EventList_top(l.events)
        p == [l EXCEPT !.events = EventList_pop(@)]
    IN IF ~ (p.time <= e.time)
       THEN [p EXCEPT !.pc = "assert_main_time",
                      !.execLog = Append(@, Popped(p, e, "main", "assert"))]
       ELSE LET t == [p EXCEPT !.time = e.time]
                r == Process_run(t, w, e.owner, eff)
            IN [r EXCEPT !.run_counter = @ + 1,
                         !.execLog = Append(@, Popped(t, e, "main", eff.kind))]

\* Variant of MainBody that does not count the executed event.
MainBody_NotCounted(l, w, eff) ==
    LET e == EventList_top(l.events)
        p == [l EXCEPT !.events = EventList_pop(@)]
    IN IF ~ e.valid
       THEN [p EXCEPT !.execLog = Append(@, Popped(p, e, "main", "invalid"))]
       ELSE IF ~ (p.time <= e.time)
       THEN [p EXCEPT !.pc = "assert_main_time",
                      !.execLog = Append(@, Popped(p, e, "main", "assert"))]
       ELSE LET t == [p EXCEPT !.time = e.time]
                r == Process_run(t, w, e.owner, eff)
            IN [r EXCEPT !.execLog = Append(@, Popped(t, e, "main", eff.kind))]

\* One pass of the main-queue loop of ParallelTimeline.run.
MainBody(l, w, eff) ==
    LET e == EventList_top(l.events)
        p == [l EXCEPT !.events = EventList_pop(@)]
    IN IF ~ e.valid
       THEN [p EXCEPT !.execLog = Append(@, Popped(p, e, "main", "invalid"))]
       ELSE IF ~ (p.time <= e.time)
       THEN [p EXCEPT !.pc = "assert_main_time",
                      !.execLog = Append(@, Popped(p, e, "main", "assert"))]
       ELSE LET t == [p EXCEPT !.time = e.time]
                r == Process_run(t, w, e.owner, eff)
            IN [r EXCEPT !.run_counter = @ + 1,
                         !.execLog = Append(@, Popped(t, e, "main", eff.kind))]

\* Variant of MainPending that also takes an event at sync_time.
MainPending_Inclusive(l) ==
    Len(l.events) > 0 /\ EventList_top(l.events).time <= l.sync_time

\* Loop test of the main-queue loop.
MainPending(l) ==
    Len(l.events) > 0 /\ EventList_top(l.events).time < l.sync_time

MainStep(w) ==
    /\ Turn(w)
    /\ pc[w] = "main"
    /\ MainPending(L(w))
    /\ LET e == EventList_top(events[w])
       IN \E eff \in IF Runs(e, time[w])
                     THEN Effects([L(w) EXCEPT !.time = e.time,
                                               !.events = EventList_pop(@)],
                                  w, e.owner)
                     ELSE {NoEffect} :
             /\ Install(w, MainBody(L(w), w, eff))
             /\ nextId' = NextIdAfter(eff)
             /\ scheduled' = ScheduledAfter([L(w) EXCEPT !.time = e.time],
                                            w, e.owner, eff)
    /\ UNCHANGED <<cls, conforming, memory, snapshot, lookahead, gmin, exchanges>>

\* Variant of FlushBeforeSync that goes back to the loop test without the
\* flush.
FlushBeforeSync_Skipped(l) == [l EXCEPT !.pc = "head"]

\* self.quantum_manager.flush_before_sync(), then back to the loop test.
FlushBeforeSync(l) == [l EXCEPT !.flush_counter = @ + 1, !.pc = "head"]

MainEnd(w) ==
    /\ Turn(w)
    /\ pc[w] = "main"
    /\ ~ MainPending(L(w))
    /\ Install(w, FlushBeforeSync(L(w)))
    /\ UNCHANGED <<cls, conforming, memory, snapshot, lookahead, nextId, scheduled,
                   gmin, exchanges>>

\* --------------------------------------------------------- Timeline.run
\* One pass of the loop of Timeline.run.
TimelineBody(l, w, eff) ==
    LET e == EventList_top(l.events)
        p == [l EXCEPT !.events = EventList_pop(@), !.pc = "run"]
    IN IF e.time >= p.stop_time
       THEN [Timeline_schedule(p, e) EXCEPT
                !.pc = "done",
                !.execLog = Append(@, Popped(p, e, "seq", "requeued"))]
       ELSE IF ~ (p.time <= e.time)
       THEN [p EXCEPT !.pc = "assert_seq_time",
                      !.execLog = Append(@, Popped(p, e, "seq", "assert"))]
       ELSE IF ~ e.valid
       THEN [p EXCEPT !.execLog = Append(@, Popped(p, e, "seq", "invalid"))]
       ELSE LET t == [p EXCEPT !.time = e.time]
                r == Process_run(t, w, e.owner, eff)
            IN [r EXCEPT !.run_counter = @ + 1,
                         !.execLog = Append(@, Popped(t, e, "seq", eff.kind))]

TimelineStep(w) ==
    /\ Turn(w)
    /\ cls = "Timeline"
    /\ pc[w] \in {"init", "run"}
    /\ Len(events[w]) > 0
    /\ LET e == EventList_top(events[w])
       IN \E eff \in IF Runs(e, time[w]) /\ e.time < stop_time[w]
                     THEN Effects([L(w) EXCEPT !.time = e.time,
                                               !.events = EventList_pop(@)],
                                  w, e.owner)
                     ELSE {NoEffect} :
             /\ Install(w, TimelineBody(L(w), w, eff))
             /\ nextId' = NextIdAfter(eff)
             /\ scheduled' = ScheduledAfter([L(w) EXCEPT !.time = e.time],
                                            w, e.owner, eff)
    /\ UNCHANGED <<cls, conforming, memory, snapshot, lookahead, gmin, exchanges>>

\* while len(self.events) > 0 fails: run() returns.
TimelineEnd(w) ==
    /\ Turn(w)
    /\ cls = "Timeline"
    /\ pc[w] \in {"init", "run"}
    /\ Len(events[w]) = 0
    /\ Install(w, [L(w) EXCEPT !.pc = "done"])
    /\ UNCHANGED <<cls, conforming, memory, snapshot, lookahead, nextId, scheduled,
                   gmin, exchanges>>

\* ------------------------------------------------------------------- Next
Next ==
    \/ \E w \in Ranks : InitSchedule(w)
    \/ \E w \in Ranks : MoveEntity(w)
    \/ \E w \in Ranks : LoopHead(w)
    \/ AllToAll
    \/ \E w \in Ranks : Absorb(w)
    \/ \E w \in Ranks : AsyncStep(w)
    \/ \E w \in Ranks : AsyncEnd(w)
    \/ \E w \in Ranks : MainStep(w)
    \/ \E w \in Ranks : MainEnd(w)
    \/ \E w \in Ranks : TimelineStep(w)
    \/ \E w \in Ranks : TimelineEnd(w)

Spec == Init /\ [][Next]_vars

SpecUnchecked == InitUnchecked /\ [][Next]_vars

\* ------------------------------------------------------------- properties
\* Events waiting in an outbound buffer of rank w or delivered to it.
InTransit(w) ==
    UNION {EventsOf(event_buffer[w][r]) \cup EventsOf(inbox[w][r]) : r \in Ranks}

\* C1 as stated: once a barrier has computed min_time_k, no event with
\* time < min_time_k is executed on any rank, placed in an outbound buffer
\* or delivered.
C1_NoStraggler_Stated ==
    \A w \in Ranks :
        /\ \A i \in 1 .. Len(execLog[w]) :
              LET x == execLog[w][i]
              IN Ran(x) /\ x.q # "seq" => x.time >= x.gmin
        /\ \A e \in InTransit(w) : e.time >= gmin

\* C1 amended: once a barrier has computed min_time_k, no event with
\* time < min_time_k is executed from the main queue of any rank, placed in
\* an outbound buffer or delivered; an event of the async partition is
\* executed with time + lookahead >= min_time_k.
C1_NoStraggler ==
    \A w \in Ranks :
        /\ \A i \in 1 .. Len(execLog[w]) :
              LET x == execLog[w][i]
              IN /\ Ran(x) /\ x.q = "main" => x.time >= x.gmin
                 /\ Ran(x) /\ x.q = "async" => x.time + lookahead >= x.gmin
        /\ \A e \in InTransit(w) : e.time >= gmin

\* A state in which C1's case has happened: after a barrier with
\* min_time_k > 0 a rank has executed a main-queue event, a rank has executed
\* an async event whose time is below min_time_k, and an event is in transit.
C1_Witness ==
    /\ \E w \in Ranks : \E i \in 1 .. Len(execLog[w]) :
          LET x == execLog[w][i] IN Ran(x) /\ x.q = "main" /\ x.gmin > 0
    /\ \E w \in Ranks : \E i \in 1 .. Len(execLog[w]) :
          LET x == execLog[w][i] IN Ran(x) /\ x.q = "async" /\ x.time < x.gmin
    /\ \E w \in Ranks : InTransit(w) # {} /\ gmin > 0

\* C2 as stated: assert min_time >= self.time holds on every rank in every
\* iteration of ParallelTimeline.run.
C2_MinTimeAssert_Stated == \A w \in Ranks : pc[w] # "assert_min_time"

\* The events of rank w that run loop q popped and executed.
LogOf(w, q) == SelectSeq(execLog[w], LAMBDA x : x.q = q /\ Ran(x))

Ordered(log) ==
    \A i, j \in 1 .. Len(log) : i < j => log[i].time <= log[j].time

\* C3 as stated: events executed by the run loop of one rank (Timeline.run,
\* or the main-queue loop of ParallelTimeline.run over all its windows) are
\* executed in non-decreasing time order, and the assertion
\* self.time <= event.time of these loops never fails.
C3_ExecutionOrder_Stated ==
    \A w \in Ranks :
        /\ Ordered(LogOf(w, "main"))
        /\ Ordered(LogOf(w, "seq"))
        /\ pc[w] \notin {"assert_main_time", "assert_seq_time"}

\* No rank is inside an iteration of ParallelTimeline.run: each is between
\* two iterations, waits in the collective, or has left run().
WindowOver ==
    /\ cls = "ParallelTimeline"
    /\ \A w \in Ranks : pc[w] \in {"head", "alltoall"} \cup Returned \cup Aborted

\* Number of the last iteration whose window some rank opened.
LastIter == Max2(sync_counter[0], sync_counter[1])

\* Events popped on rank w during iteration k.
PoppedIn(w, k) == SelectSeq(execLog[w], LAMBDA x : x.iter = k /\ x.q # "seq")

\* C4 as stated: in every iteration whose global min_time is below
\* stop_time (a window is opened), at least one rank executes at least one
\* event during the execute phase of that iteration.
C4_Progress_Stated ==
    WindowOver /\ LastIter >= 1 =>
        \E w \in Ranks : \E i \in 1 .. Len(PoppedIn(w, LastIter)) :
            Ran(PoppedIn(w, LastIter)[i])

\* Events popped on rank w during iteration k and not pushed back for
\* lying at or after sync_time.
TakenIn(w, k) == SelectSeq(PoppedIn(w, k), LAMBDA x : x.did # "requeued")

\* C4 amended: in every such iteration at least one rank takes at least one
\* event with time below sync_time from its main or async event list (and
\* executes it unless it is invalid or fails the time assertion of the
\* loop), or a rank fails assert min_time >= self.time.
C4_Progress ==
    WindowOver /\ LastIter >= 1 =>
        \/ \E w \in Ranks : pc[w] = "assert_min_time"
        \/ \E w \in Ranks : Len(TakenIn(w, LastIter)) > 0

\* A window in which no rank aborted and the only event taken was invalid.
C4_Witness ==
    /\ WindowOver /\ LastIter >= 1
    /\ \A w \in Ranks : pc[w] \notin Aborted
    /\ \E w \in Ranks : Len(TakenIn(w, LastIter)) > 0
    /\ \A w \in Ranks : \A i \in 1 .. Len(PoppedIn(w, LastIter)) :
          ~ Ran(PoppedIn(w, LastIter)[i])

\* A rank absorbs its inbox with a resulting min_time at or above stop_time.
C5_Step(w) ==
    (pc[w] = "absorb" /\ pc'[w] # "absorb" /\ min_time'[w] >= stop_time[w])
    => /\ pc'[w] = "break"
       /\ sync_counter'[w] = sync_counter[w]
       /\ run_counter'[w] = run_counter[w]
       /\ async_run_counter'[w] = async_run_counter[w]
       /\ execLog'[w] = execLog[w]

\* Ranks that left by break did so in the same iteration.
C5_State ==
    \A w, v \in Ranks :
        pc[w] = "break" =>
            /\ pc[v] \in {"absorb", "break"}
            /\ pc[v] = "break" => sync_counter[v] = sync_counter[w]
            /\ pc[v] = "break" => min_time[v] = min_time[w]
            /\ min_time[w] >= stop_time[w]
            /\ nextId = 1 =>
                  exchanges = 1 /\ sync_counter[w] = 0 /\ execLog[w] = <<>>

IsForeign(w, e) == e.byName /\ e.owner \in DOMAIN foreign_entities(w)

\* Number of occurrences of event i in a sequence of events and stamps.
Count(i, seq) ==
    Cardinality({k \in 1 .. Len(seq) : "id" \in DOMAIN seq[k] /\ seq[k].id = i})

\* An entity of rank w outside the async partition has just called
\* schedule(), which for it is ParallelTimeline.schedule.
JustScheduled(w) ==
    /\ cls = "ParallelTimeline"
    /\ Len(scheduled') = Len(scheduled) + 1
    /\ Last(scheduled').from = w
    /\ Last(scheduled').by \notin async_entities_tl[w]

\* The event handed to schedule() in this step.
NewEvent ==
    LET s == Last(scheduled') IN Event(s.id, s.time, s.owner, s.byName)

\* What C6 says of a foreign event: appended to the buffer of the owning
\* rank only, not queued locally, schedule_counter one higher.
RoutedForeign(w, e) ==
    /\ event_buffer'[w] =
          [event_buffer[w] EXCEPT ![Home[e.owner]] = Append(@, e)]
    /\ Count(e.id, events'[w]) = 0
    /\ Count(e.id, async_events'[w]) = 0
    /\ schedule_counter'[w] = schedule_counter[w] + 1

\* Inserted into the main event list and into no outbound buffer.
RoutedLocal(w, e) ==
    /\ event_buffer'[w] = event_buffer[w]
    /\ Count(e.id, events'[w]) = 1
    /\ Count(e.id, async_events'[w]) = 0

\* Pushed on the event list of the async timeline only.
RoutedAsync(w, e) ==
    /\ event_buffer'[w] = event_buffer[w]
    /\ Count(e.id, events'[w]) = 0
    /\ Count(e.id, async_events'[w]) = 1
    /\ schedule_counter'[w] = schedule_counter[w]

\* C6 as stated: schedule() appends an event owned by a known foreign name
\* to event_buffer[foreign_entities[name]] only and counts it; any other
\* event is inserted into the local (main) event list and no buffer.
C6_Routing_Stated ==
    [][\A w \in Ranks :
          JustScheduled(w) =>
              LET e == NewEvent
              IN IF IsForeign(w, e) THEN RoutedForeign(w, e)
                 ELSE RoutedLocal(w, e)]_vars

\* C6 amended: as stated, except that an event whose owner is a name string
\* found in async_tl.entities is pushed on the event list of the async
\* timeline instead (schedule_counter unchanged), and into no outbound
\* buffer and not into the main event list.
C6_Routing ==
    [][\A w \in Ranks :
          JustScheduled(w) =>
              LET e == NewEvent
              IN IF IsForeign(w, e) THEN RoutedForeign(w, e)
                 ELSE IF e.byName /\ e.owner \in async_entities_tl[w]
                 THEN RoutedAsync(w, e)
                 ELSE RoutedLocal(w, e)]_vars

\* schedule() has routed a foreign event to an outbound buffer, a named
\* event of a local entity to the main list and one to the async list.
C6_Witness ==
    /\ \E w, r \in Ranks : EventsOf(event_buffer[w][r]) # {}
    /\ \E w \in Ranks : \E e \in Range(events[w]) : e.byName
    /\ \E w \in Ranks : async_events[w] # <<>>

\* Occurrences of event i in the main and async event lists of rank w.
Queued(i, w) == Count(i, events[w]) + Count(i, async_events[w])

\* An event list only holds events of entities of its own rank, and an
\* inbox holds, between alltoall and its absorption, what the peers'
\* buffers held.
C7_State ==
    cls = "ParallelTimeline" =>
        /\ \A w \in Ranks :
              \A e \in Range(events[w]) \cup Range(async_events[w]) :
                  Home[e.owner] = w
        /\ \A w, u \in Ranks :
              (pc[w] = "absorb" /\ pc[u] = "absorb")
              => inbox[w][u] = event_buffer[u][w]

\* Rank w clears its buffers and schedules what it received.
C7_Step(w) ==
    (pc[w] = "absorb" /\ pc'[w] # "absorb")
    => /\ \A r \in Ranks : event_buffer'[w][r] = <<>>
       /\ buffer_min_ts'[w] = Inf
       /\ \A u \in Ranks : \A e \in EventsOf(inbox[w][u]) :
             /\ Queued(e.id, w) = 0
             /\ Queued(e.id, w)' = 1
             /\ \A v \in Ranks \ {w} : Queued(e.id, v)' = 0
       /\ Len(events'[w]) + Len(async_events'[w])
             = Len(events[w]) + Len(async_events[w])
               + (Len(inbox[w][0]) - 1) + (Len(inbox[w][1]) - 1)

\* C7: every event a rank appended to event_buffer[r] before an exchange is
\* afterwards present exactly once in an event list of rank r and in none of
\* any other rank; nothing is lost or duplicated and the piggy-backed
\* min_time is not scheduled; after the exchange every outbound buffer of
\* the rank is empty and buffer_min_ts is +infinity.
C7_Exchange == [] C7_State /\ [][\A w \in Ranks : C7_Step(w)]_vars

\* Rank 1 has absorbed an exchange that carried an event from rank 0 and
\* holds it in an event list.
C7_Witness ==
    /\ pc[1] \notin {"init", "head", "alltoall", "absorb"}
    /\ EventsOf(inbox[1][0]) # {}
    /\ \E e \in EventsOf(inbox[1][0]) : Queued(e.id, 1) = 1

\* The scheduling s names an entity of another rank.
CrossPartition(s) == s.byName /\ Home[s.owner] # s.from

\* Places <<w, k>> of the history where event i reached process.run().
Executions(i) ==
    {x \in Ranks \X (1 .. MaxEvents + 1) :
        /\ x[2] <= Len(execLog[x[1]])
        /\ execLog[x[1]][x[2]].id = i
        /\ Ran(execLog[x[1]][x[2]])}

\* Event i was invalidated by remove_event.
Removed(i) ==
    \E w \in Ranks :
        \/ \E e \in Range(events[w]) \cup Range(async_events[w]) :
              e.id = i /\ ~ e.valid
        \/ \E k \in 1 .. Len(execLog[w]) :
              execLog[w][k].id = i /\ execLog[w][k].did = "invalid"

\* C8 as stated: an event scheduled from rank u on an entity of rank v with
\* time T >= now_u + lookahead and T < stop_time is executed at most once,
\* only on rank v and with now() = T there, and once every rank has
\* returned from run() it has been executed (unless it was removed).
C8_Delivery_Stated ==
    cls = "ParallelTimeline" =>
        \A k \in 1 .. Len(scheduled) :
            LET s == scheduled[k]
                v == Home[s.owner]
            IN (/\ CrossPartition(s)
                /\ s.time >= s.now + lookahead
                /\ s.time < stop_time[v])
               => /\ \A x \in Executions(s.id) :
                        x[1] = v /\ execLog[x[1]][x[2]].now = s.time
                  /\ Cardinality(Executions(s.id)) <= 1
                  /\ ((\A w \in Ranks : pc[w] \in Returned) /\ ~ Removed(s.id))
                     => Cardinality(Executions(s.id)) = 1

\* Rank w has just popped an event (its history grew by one entry).
JustPopped(w) == Len(execLog'[w]) = Len(execLog[w]) + 1

\* What C9 says of one step of rank w.
C9_Step(w) ==
    JustPopped(w) =>
        LET x == Last(execLog'[w])
        IN /\ Ran(x) => x.time < stop_time[w]
           /\ (x.q = "seq" /\ x.time >= stop_time[w])
              => /\ x.did = "requeued"
                 /\ pc'[w] = "done"
                 /\ Count(x.id, events'[w]) = 1
                 /\ run_counter'[w] = run_counter[w]
                 /\ time'[w] <= stop_time'[w]

\* C9 as stated: no run loop executes an event whose time is at or above
\* stop_time; Timeline.run puts the first popped event with time >=
\* stop_time back, returns, does not count it, and now() <= stop_time.
C9_StopTimeBoundary_Stated == [][\A w \in Ranks : C9_Step(w)]_vars

\* What C10 says of one step of rank w in which a process called stop().
C10_Step(w) ==
    (JustPopped(w) /\ Last(execLog'[w]).did = "stop")
    => stop_time'[w] = Last(execLog'[w]).time /\ stop_time'[w] = time'[w]

\* No event reaches process.run() after the one that called stop().
C10_State ==
    \A w \in Ranks : \A j, k \in 1 .. Len(execLog[w]) :
        (j < k /\ execLog[w][j].did = "stop") => ~ Ran(execLog[w][k])

\* C10 as stated: stop() sets stop_time to now() and no further event is
\* executed by that run() call, in Timeline.run and in ParallelTimeline.run.
C10_Stop_Stated == [] C10_State /\ [][\A w \in Ranks : C10_Step(w)]_vars

\* Positions of run() inside a window: between the sync_counter increment
\* and the flush, including a window ended by a failed time assertion.
InWindow == {"async", "main", "assert_async_time", "assert_main_time"}

\* The flush count is the number of completed windows.
C11_State ==
    cls = "ParallelTimeline" =>
        \A w \in Ranks :
            /\ pc[w] \in InWindow => flush_counter[w] = sync_counter[w] - 1
            /\ pc[w] \notin InWindow => flush_counter[w] = sync_counter[w]

\* Events are popped before the flush of their window, and the flush is the
\* last thing a window does before the loop test that precedes alltoall.
C11_Step(w) ==
    /\ JustPopped(w) /\ Last(execLog'[w]).q # "seq"
       => /\ Last(execLog'[w]).iter = flush_counter[w] + 1
          /\ flush_counter'[w] = flush_counter[w]
    /\ flush_counter'[w] # flush_counter[w]
       => /\ flush_counter'[w] = flush_counter[w] + 1
          /\ pc[w] = "main" /\ pc'[w] = "head"
          /\ execLog'[w] = execLog[w]
    /\ (pc[w] # "alltoall" /\ pc'[w] = "alltoall")
       => flush_counter[w] = sync_counter[w]

\* C11: on every rank the quantum-manager flush is called exactly once per
\* synchronization window, after the last event popped in that window and
\* before the rank enters the next alltoall; when run() has returned the
\* number of flush calls equals sync_counter. (A window that ends in an
\* AssertionError is not flushed.)
C11_BarrierFlush == [] C11_State /\ [][\A w \in Ranks : C11_Step(w)]_vars

\* A rank has returned from run() after two flushed windows in which it
\* executed events.
C11_Witness ==
    \E w \in Ranks :
        /\ pc[w] \in Returned /\ cls = "ParallelTimeline"
        /\ sync_counter[w] >= 2 /\ flush_counter[w] = sync_counter[w]
        /\ \E k \in 1 .. Len(execLog[w]) : execLog[w][k].iter = 2

\* The scheduling s names a foreign entity with a time below now() plus
\* lookahead.
ViolatesLookahead(s) == CrossPartition(s) /\ s.time < s.now + lookahead

\* C12 as stated: an event scheduled on a foreign entity with time below
\* now_u + lookahead is never accepted and executed silently: if it reached
\* process.run(), some rank did not return normally from run().
C12_LookaheadCaught_Stated ==
    cls = "ParallelTimeline" =>
        \A k \in 1 .. Len(scheduled) :
            ViolatesLookahead(scheduled[k])
            => ~ (/\ Executions(scheduled[k].id) # {}
                  /\ \A w \in Ranks : pc[w] \in Returned)

\* C15 as stated: no rank is ever inside ParallelTimeline.run with a
\* lookahead that is not positive (construction would have failed).
C15_LookaheadPositive_Stated ==
    \A w \in Ranks :
        (cls = "ParallelTimeline" /\ pc[w] # "init") => lookahead > 0

\* Number of history entries of rank w that satisfy P.
LogCount(w, P(_)) == Cardinality({k \in 1 .. Len(execLog[w]) : P(execLog[w][k])})

\* Events popped while invalid.
InvalidPopped ==
    LET Is(x) == x.did = "invalid" IN LogCount(0, Is) + LogCount(1, Is)

\* Events still held in an event list or an outbound buffer.
StillHeld ==
    LET PerRank(w) ==
            Len(events[w]) + Len(async_events[w])
            + Cardinality({k \in 1 .. Len(event_buffer[w][0]) :
                              "id" \in DOMAIN event_buffer[w][0][k]})
            + Cardinality({k \in 1 .. Len(event_buffer[w][1]) :
                              "id" \in DOMAIN event_buffer[w][1][k]})
    IN PerRank(0) + PerRank(1)

\* Of those, the ones marked invalid.
StillHeldInvalid ==
    LET PerRank(w) ==
            Cardinality({k \in 1 .. Len(events[w]) : ~ events[w][k].valid})
            + Cardinality({k \in 1 .. Len(async_events[w]) :
                              ~ async_events[w][k].valid})
    IN PerRank(0) + PerRank(1)

\* Events an entity of the async partition scheduled while it was executed
\* from the main event list: they stay in async_tl.new_events and are
\* discarded by the next async_tl.run().
Dropped ==
    LET PerRank(w) ==
            Cardinality({k \in 1 .. Len(execLog[w]) :
                            /\ execLog[w][k].q = "main"
                            /\ execLog[w][k].did = "schedule"
                            /\ execLog[w][k].owner \in async_entities_tl[w]})
    IN PerRank(0) + PerRank(1)

AllReturned == \A w \in Ranks : pc[w] \in Returned \cup {"idle"}

\* C13 as stated: when run() has returned on every rank, the sum of
\* run_counter over the ranks equals the number of events scheduled minus
\* the number of events invalidated before execution.
C13_CounterConservation_Stated ==
    AllReturned =>
        run_counter[0] + run_counter[1]
            = Len(scheduled) - (InvalidPopped + StillHeldInvalid)

\* C13 amended: when run() has returned on every rank, the sum of
\* run_counter and async_tl.run_counter over the ranks equals the number of
\* events scheduled, minus the events popped while invalid, minus the
\* events still held in an event list or outbound buffer (time at or after
\* stop_time), minus the events dropped from async_tl.new_events.
C13_CounterConservation ==
    AllReturned =>
        run_counter[0] + run_counter[1]
        + async_run_counter[0] + async_run_counter[1]
            = Len(scheduled) - InvalidPopped - StillHeld - Dropped

\* Every rank has returned from ParallelTimeline.run after two events were
\* executed and one was popped invalid.
C13_Witness ==
    /\ cls = "ParallelTimeline" /\ AllReturned
    /\ run_counter[0] + run_counter[1] >= 2
    /\ InvalidPopped >= 1

\* Event i sits in an event list of rank w with its invalid flag set.
PendingInvalid(w, i) ==
    \E e \in Range(events[w]) \cup Range(async_events[w]) :
        e.id = i /\ ~ e.valid

\* A removed event keeps its flag, and when a run loop pops it the process
\* is not run and no run counter moves.
C14_Step(w) ==
    /\ \A e \in Range(events'[w]) \cup Range(async_events'[w]) :
          PendingInvalid(w, e.id) => ~ e.valid
    /\ (JustPopped(w) /\ PendingInvalid(w, Last(execLog'[w]).id))
       => /\ ~ Ran(Last(execLog'[w]))
          /\ run_counter'[w] = run_counter[w]
          /\ async_run_counter'[w] = async_run_counter[w]
          /\ nextId' = nextId
          /\ stop_time'[w] = stop_time[w]

\* C14: after remove_event(e) on a pending event e no run loop (Timeline.run,
\* the main loop of ParallelTimeline.run, AsyncParallelTimeline.run) runs
\* e.process, and e adds nothing to run_counter.
C14_Removal == [][\A w \in Ranks : C14_Step(w)]_vars

\* The main loop of ParallelTimeline.run has popped an event that an
\* executed process had removed.
C14_Witness ==
    \E w \in Ranks : \E j, k \in 1 .. Len(execLog[w]) :
        /\ j < k
        /\ execLog[w][j].did = "remove"
        /\ execLog[w][k].did = "invalid" /\ execLog[w][k].q = "main"

\* Smallest timestamp in a non-empty sequence of events.
EarliestIn(q) ==
    CHOOSE t \in {q[k].time : k \in 1 .. Len(q)} :
        \A k \in 1 .. Len(q) : t <= q[k].time

\* C16: AsyncParallelTimeline.top_time() is the time of the earliest pending
\* event of the async event list plus lookahead (+infinity when the list is
\* empty), and every event of the async partition with timestamp t is
\* executed in a window whose min_time is at most t + lookahead, events
\* received from another rank in that iteration's exchange included.
C16_AsyncLateness ==
    cls = "ParallelTimeline" =>
        \A w \in Ranks :
            /\ AsyncParallelTimeline_top_time(L(w))
                  = IF async_events[w] = <<>> THEN Inf
                    ELSE EarliestIn(async_events[w]) + lookahead
            /\ \A k \in 1 .. Len(execLog[w]) :
                  (execLog[w][k].q = "async" /\ Ran(execLog[w][k]))
                  => execLog[w][k].min_time <= execLog[w][k].time + lookahead

\* An async event that rank 1 scheduled on rank 0 was executed there in a
\* window whose min_time lies above its timestamp.
C16_Witness ==
    \E k \in 1 .. Len(execLog[0]) : \E j \in 1 .. Len(scheduled) :
        /\ execLog[0][k].q = "async" /\ Ran(execLog[0][k])
        /\ scheduled[j].id = execLog[0][k].id /\ scheduled[j].from = 1
        /\ execLog[0][k].min_time > execLog[0][k].time

\* Timeline.run pops an invalid event whose time is below stop_time.
PopsInvalid(w) ==
    /\ cls = "Timeline" /\ JustPopped(w)
    /\ ~ EventList_top(events[w]).valid
    /\ EventList_top(events[w]).time < stop_time[w]

\* C17 as stated: Timeline.run discards a popped invalid event with time
\* below stop_time without running its process, without changing time or
\* run_counter and without raising, whatever its timestamp (also one below
\* now()): the time assertion is evaluated for valid events only.
C17_InvalidSkipped_Stated ==
    [][\A w \in Ranks :
          PopsInvalid(w) =>
              /\ Last(execLog'[w]).did = "invalid"
              /\ pc'[w] \notin Aborted
              /\ time'[w] = time[w]
              /\ run_counter'[w] = run_counter[w]]_vars

\* Rank w has just absorbed its inbox.
JustAbsorbed(w) == pc[w] = "absorb" /\ pc'[w] # "absorb"

\* C18 as stated: in every iteration every rank uses the same min_time, the
\* minimum timestamp over all events pending on any rank at that exchange
\* (+infinity if none), so no pending event has a timestamp below min_time.
C18_GlobalMinimum_Stated ==
    [][\A w \in Ranks :
          JustAbsorbed(w) =>
              /\ min_time'[w] = snapshot.exact
              /\ \A e \in Range(events'[w]) \cup Range(async_events'[w]) :
                    e.time >= min_time'[w]]_vars

\* C18 amended: every rank uses the same min_time, the minimum over all
\* events pending on any rank at that exchange of the timestamp, taken plus
\* lookahead for the events that are in an async event list; no event of a
\* main event list has a timestamp below min_time and no event of an async
\* event list one below min_time - lookahead.
C18_GlobalMinimum ==
    [][\A w \in Ranks :
          JustAbsorbed(w) =>
              /\ min_time'[w] = snapshot.relaxed
              /\ \A e \in Range(events'[w]) : e.time >= min_time'[w]
              /\ \A e \in Range(async_events'[w]) :
                    e.time + lookahead >= min_time'[w]]_vars

\* Both ranks are in a window opened with the same finite min_time, which
\* an event that came from the other rank determined.
C18_Witness ==
    /\ pc[1] \in {"async", "main"}
    /\ min_time[1] = snapshot.relaxed /\ min_time[1] < Inf
    /\ EventsOf(inbox[1][0]) # {}
    /\ \A e \in Range(events[1]) : e.time >= min_time[1]
    /\ \E e \in EventsOf(inbox[1][0]) : e.time = min_time[1]
    /\ snapshot.relaxed # snapshot.exact

\* The bounds C19 states for an executed event x, and the ones that hold
\* for an event of the async partition.
InWindowBounds(x) == x.min_time <= x.time /\ x.time < x.sync_time

InAsyncBounds(x) == x.min_time - lookahead <= x.time /\ x.time < x.sync_time

\* A window is opened with sync_time = min(min_time + lookahead, stop_time),
\* and its execute phase ends with no event below sync_time in the main
\* event list.
C19_Step(w) ==
    /\ (JustAbsorbed(w) /\ pc'[w] = "async")
       => sync_time'[w] = Min2(min_time'[w] + lookahead, stop_time[w])
    /\ (pc[w] = "main" /\ pc'[w] = "head")
       => \A e \in Range(events'[w]) : e.time >= sync_time[w]

\* C19 as stated: every event a rank executes in iteration k has
\* min_time_k <= time < sync_time_k, and when the execute phase ends no
\* valid event below sync_time_k is left in the main event list.
C19_WindowBounds_Stated ==
    /\ [] (\A w \in Ranks : \A k \in 1 .. Len(execLog[w]) :
              (execLog[w][k].q # "seq" /\ Ran(execLog[w][k]))
              => InWindowBounds(execLog[w][k]))
    /\ [][\A w \in Ranks : C19_Step(w)]_vars

\* C19 amended: as stated for the events executed from the main event list;
\* an event executed by AsyncParallelTimeline.run has
\* min_time_k - lookahead <= time < sync_time_k.
C19_WindowBounds ==
    /\ [] (\A w \in Ranks : \A k \in 1 .. Len(execLog[w]) :
              Ran(execLog[w][k])
              => /\ execLog[w][k].q = "main" => InWindowBounds(execLog[w][k])
                 /\ execLog[w][k].q = "async" => InAsyncBounds(execLog[w][k]))
    /\ [][\A w \in Ranks : C19_Step(w)]_vars

\* A rank has ended a window in which it executed an async event below
\* min_time and a main event, with a later event left in the main list.
C19_Witness ==
    \E w \in Ranks :
        /\ pc[w] = "head" /\ events[w] # <<>>
        /\ \E j, k \in 1 .. Len(execLog[w]) :
              /\ execLog[w][j].q = "async" /\ Ran(execLog[w][j])
              /\ execLog[w][j].time < execLog[w][j].min_time
              /\ execLog[w][k].q = "main" /\ Ran(execLog[w][k])
              /\ execLog[w][k].iter = sync_counter[w]

\* C20 as stated: all ranks leave ParallelTimeline.run in the same
\* iteration after the same number of exchanges, so no rank waits in the
\* alltoall collective for a peer that has returned from run(), also when
\* an entity called stop() during a window.
C20_Lockstep_Stated ==
    cls = "ParallelTimeline" =>
        \A w, v \in Ranks :
            pc[w] \in Returned
            => /\ pc[v] # "alltoall"
               /\ pc[v] \in Returned => sync_counter[v] = sync_counter[w]

\* Places of the history of rank w where a process called schedule().
SchedulingPops(w) ==
    {p \in 1 .. Len(execLog[w]) : execLog[w][p].did \in {"schedule", "cancelled"}}

\* The k-th call of schedule() was made by a process that
\* AsyncParallelTimeline.run executed: the calls of a rank during run() are,
\* in order, the scheduling pops of its history.
FromAsyncLoop(k) ==
    LET w == scheduled[k].from
        later == Cardinality({j \in k .. Len(scheduled) : scheduled[j].from = w})
    IN \E p \in SchedulingPops(w) :
          /\ execLog[w][p].q = "async"
          /\ Cardinality({j \in SchedulingPops(w) : j >= p}) = later

\* Occurrences of event i in the outbound buffers of rank w.
Buffered(i, w) == Count(i, event_buffer[w][0]) + Count(i, event_buffer[w][1])

\* While AsyncParallelTimeline.run is in its loop no event enters an event
\* list or an outbound buffer, and a scheduled event is appended to
\* new_events; when the loop has returned, every event of new_events is put
\* by ParallelTimeline.schedule into the main list, the async list or an
\* outbound buffer before the main loop starts.
C21_Step(w) ==
    /\ (pc[w] = "async" /\ pc'[w] # "main")
       => /\ \A i \in 1 .. MaxEvents + 1 :
                /\ Queued(i, w)' <= Queued(i, w)
                /\ Buffered(i, w)' = Buffered(i, w)
          /\ Len(scheduled') = Len(scheduled) + 1
             => /\ Last(scheduled').from = w
                /\ new_events'[w] = Append(new_events[w], NewEvent)
    /\ (pc[w] = "async" /\ pc'[w] = "main")
       => \A e \in Range(new_events[w]) :
             Queued(e.id, w)' + Buffered(e.id, w)'
                = Queued(e.id, w) + Buffered(e.id, w) + 1

\* No time assertion of a run loop has failed for an event that a process
\* of the async loop scheduled at or after its own event's time.
C21_State ==
    \A w \in Ranks : \A k \in 1 .. Len(execLog[w]) :
        LET x == execLog[w][k]
        IN (x.did = "assert" /\ x.q \in {"async", "main"})
           => \A j \in 1 .. Len(scheduled) :
                 (scheduled[j].id = x.id /\ FromAsyncLoop(j))
                 => scheduled[j].time < scheduled[j].now

\* C21 as stated: events that async entities schedule while
\* AsyncParallelTimeline.run is executing are not inserted into a queue
\* during that loop but collected in new_events and routed by
\* ParallelTimeline.schedule after the async loop and before the main loop;
\* after the routing `assert self.time <= event.time` fails neither in the
\* async loop nor in the main loop for such an event whose time is >= the
\* time of the event that scheduled it.
C21_AsyncOrdering_Stated ==
    /\ [] C21_State
    /\ [][cls = "ParallelTimeline" => \A w \in Ranks : C21_Step(w)]_vars

\* The routing part of C21 alone.
C21_Routing == [][cls = "ParallelTimeline" => \A w \in Ranks : C21_Step(w)]_vars

\* ----------------------------------------------------------------- Memory
\* A single-atom Memory on a sequential Timeline (rank 0).  Times are in the
\* unit of the timeline; coherence_time is counted in that unit, so that
\* int(coherence_time * 1e12) is coherence_time.
MemoryName == "memo"

\* Memory.__init__: the fields the expiration logic uses, and the last
\* method of the memory that was called (history).
Memory(c) == [coherence_time |-> c, expiration_event |-> None, called |-> "__init__"]

\* EventList.update_event_time: the event gets the new time and its place
\* in the order; an event that is not in the list leaves the list as it is.
EventList_update_event_time(q, i, t) ==
    IF \E k \in 1 .. Len(q) : q[k].id = i /\ q[k].time # t
    THEN LET k == CHOOSE j \in 1 .. Len(q) : q[j].id = i
         IN EventList_push(SubSeq(q, 1, k - 1) \o SubSeq(q, k + 1, Len(q)),
                           [q[k] EXCEPT !.time = t])
    ELSE q

\* Timeline.update_event_time
Timeline_update_event_time(l, i, t) ==
    [l EXCEPT !.events = EventList_update_event_time(@, i, t)]

\* Memory.reset, on the pair s of the timeline (tl) and the memory (memo).
Memory_reset(s) ==
    IF s.memo.expiration_event # None
    THEN [tl |-> Timeline_remove_event(s.tl, s.memo.expiration_event),
          memo |-> [s.memo EXCEPT !.expiration_event = None]]
    ELSE s

\* Memory._schedule_expiration
Memory_schedule_expiration(s) ==
    LET r == IF s.memo.expiration_event # None
             THEN Timeline_remove_event(s.tl, s.memo.expiration_event)
             ELSE s.tl
        decay_time == r.time + s.memo.coherence_time
        event == Event(nextId, decay_time, MemoryName, FALSE)
    IN [tl |-> Timeline_schedule(r, event),
        memo |-> [s.memo EXCEPT !.expiration_event = event.id]]

\* Memory.set_plus
Memory_set_plus(s) ==
    IF s.memo.coherence_time > 0 THEN Memory_schedule_expiration(s) ELSE s

\* Memory.update_expire_time(time)
Memory_update_expire_time(s, t) ==
    LET time_ == Max2(t, s.tl.time)
    IN IF s.memo.expiration_event = None
       THEN IF time_ >= s.tl.time
            THEN [s EXCEPT !.tl = Timeline_schedule(
                                      @, Event(nextId, time_, MemoryName, FALSE))]
            ELSE s
       ELSE [s EXCEPT !.tl = Timeline_update_event_time(
                                 @, s.memo.expiration_event, time_)]

\* Memory.expire: the observers are notified, then reset().
Memory_expire(s) == Memory_reset(s)

\* The calls entity code makes on the memory from the process of an event.
NoCall == [method |-> "none", time |-> 0]

Calls ==
    {[NoCall EXCEPT !.method = "set_plus"], [NoCall EXCEPT !.method = "reset"]}
    \cup {[NoCall EXCEPT !.method = "update_expire_time", !.time = t] :
              t \in 0 .. MaxTime + 1}

\* process.run() of an event: Memory.expire for an event of the memory, the
\* call c for an event of entity code.
Memory_call(s, c) ==
    LET r == CASE c.method = "expire" -> Memory_expire(s)
               [] c.method = "reset" -> Memory_reset(s)
               [] c.method = "set_plus" -> Memory_set_plus(s)
               [] c.method = "update_expire_time" ->
                     Memory_update_expire_time(s, c.time)
               [] OTHER -> s
    IN [r EXCEPT !.memo.called = c.method]

\* One pass of the loop of Timeline.run on the timeline of the memory.
MemoryBody(l, mem, c) ==
    LET e == EventList_top(l.events)
        p == [l EXCEPT !.events = EventList_pop(@), !.pc = "run"]
    IN IF e.time >= p.stop_time
       THEN [tl |-> [Timeline_schedule(p, e) EXCEPT
                        !.pc = "done",
                        !.execLog = Append(@, Popped(p, e, "seq", "requeued"))],
             memo |-> mem]
       ELSE IF ~ (p.time <= e.time)
       THEN [tl |-> [p EXCEPT !.pc = "assert_seq_time",
                              !.execLog = Append(@, Popped(p, e, "seq", "assert"))],
             memo |-> mem]
       ELSE IF ~ e.valid
       THEN [tl |-> [p EXCEPT !.execLog = Append(@, Popped(p, e, "seq", "invalid"))],
             memo |-> mem]
       ELSE LET t == [p EXCEPT !.time = e.time]
                r == Memory_call([tl |-> t, memo |-> mem], c)
            IN [r EXCEPT !.tl.run_counter = @ + 1,
                         !.tl.execLog = Append(@, Popped(t, e, "seq", c.method))]

\* Memory(...) is constructed on Timeline(stop_time).
MemoryInit ==
    /\ InitFields
    /\ cls = "Timeline"
    /\ lookahead = 1
    /\ \E s \in StopTimes : stop_time = [w \in Ranks |-> s]
    /\ conforming = TRUE
    /\ \E c \in -1 .. MaxCoherence : memory = Memory(c)

\* Before run(): entity code schedules an event whose process will call a
\* method of the memory.
ScheduleCall ==
    /\ pc[0] = "init"
    /\ Len(events[0]) < MaxCalls
    /\ \E t \in 0 .. MaxTime :
          /\ Install(0, Timeline_schedule(L(0), Event(nextId, t, "A", FALSE)))
          /\ scheduled' = Append(scheduled,
                                 Scheduling(0, "A", 0, Event(nextId, t, "A", FALSE)))
    /\ nextId' = nextId + 1
    /\ UNCHANGED <<cls, conforming, memory, snapshot, lookahead, gmin, exchanges>>

\* The events of the list q that the list of the state before did not hold.
Created(q) == {e \in Range(q) : e.id = nextId}

MemoryStep ==
    /\ pc[0] \in {"init", "run"}
    /\ Len(events[0]) > 0
    /\ LET e == EventList_top(events[0])
       IN \E c \in IF Runs(e, time[0]) /\ e.time < stop_time[0]
                   THEN IF e.owner = MemoryName
                        THEN {[NoCall EXCEPT !.method = "expire"]}
                        ELSE Calls
                   ELSE {NoCall} :
             LET s == MemoryBody(L(0), memory, c)
             IN /\ Install(0, s.tl)
                /\ memory' = s.memo
                /\ nextId' = IF Created(s.tl.events) # {} THEN nextId + 1
                             ELSE nextId
                /\ scheduled' =
                      IF Created(s.tl.events) # {}
                      THEN LET n == CHOOSE x \in Created(s.tl.events) : TRUE
                           IN Append(scheduled,
                                     Scheduling(0, MemoryName, s.tl.time,
                                                Event(n.id, n.time, n.owner, FALSE)))
                      ELSE scheduled
    /\ UNCHANGED <<cls, conforming, snapshot, lookahead, gmin, exchanges>>

MemoryNext ==
    \/ ScheduleCall
    \/ MemoryStep
    \/ TimelineEnd(0)

SpecMemory == MemoryInit /\ [][MemoryNext]_vars

\* The valid expire events of the memory that the timeline holds.
PendingExpire == {e \in Range(events[0]) : e.owner = MemoryName /\ e.valid}

\* C22 as stated: after any sequence of set_plus, update_expire_time, reset
\* and expire on a Memory the timeline holds at most one valid pending
\* expire event of the memory, and expiration_event refers to it when there
\* is one; after reset() there is no valid pending expire event and
\* expiration_event is None; update_expire_time never moves the expiration
\* to a time earlier than now().
C22_SingleExpiration_Stated ==
    /\ Cardinality(PendingExpire) <= 1
    /\ \A e \in PendingExpire : memory.expiration_event = e.id
    /\ memory.called \in {"reset", "expire"}
       => PendingExpire = {} /\ memory.expiration_event = None
    /\ memory.called = "update_expire_time"
       => \A e \in PendingExpire : e.time >= time[0]

====
